---------------------------- MODULE Spec2Model ----------------------------
(***************************************************************************)
(* The inventory API of inventory_project/inventory: the Product,           *)
(* ProductActionLog and ScanHistory tables and the request handlers of     *)
(* views.py, one action per handler; further on, the audited handlers      *)
(* statement by statement, served by workers whose queries interleave.     *)
(*                                                                         *)
(* Text the code slices or formats (barcodes, quantity_change,             *)
(* threshold_change) is a sequence of one-character strings; text the code *)
(* only copies and compares (name, sku, source) is a string.  A request    *)
(* field is a set: {} when the key is absent from the payload or the query *)
(* string, {v} when it is present with value v.                            *)
(***************************************************************************)
EXTENDS Integers, Sequences, FiniteSets, TLC

VARIABLES
    backend,    \* the database engine DATABASE_URL selects (settings.py)
    products,   \* the Product table: a set of rows
    nextId,     \* the next value of Product's auto-increment primary key
    logs,       \* the ProductActionLog table, in insertion (id) order
    scans,      \* the ScanHistory table, in insertion (id) order
    now,        \* timezone.now(), in ticks
    response,   \* the request just served and the response it got
    calls       \* per worker, the request it is in the middle of serving

vars == <<backend, products, nextId, logs, scans, now, response, calls>>

-----------------------------------------------------------------------------
(* Bounds of the model *)

\* Product ids the model hands out (creation stops past it).
MaxId == 2
\* ProductActionLog rows the model writes.
MaxLogs == 3
\* ScanHistory rows the model writes.
MaxScans == 2
\* The last tick of the clock.
MaxClock == 3
\* Ticks in one calendar day.
TicksPerDay == 2
\* Workers that serve requests at the same time.
MaxWorkers == 2

-----------------------------------------------------------------------------
(* Program constants *)

\* ProductActionLog.quantity_change / threshold_change: CharField(max_length=10)
MaxChangeLen == 10
\* Product.alert_threshold: PositiveIntegerField(default=10)
DefaultThreshold == 10
\* product_by_barcode: barcode[:6]
PrefixLen == 6
\* product_by_barcode: [:5]
SimilarLimit == 5

\* Product.barcode: CharField(default="000000")
DefaultBarcode == <<"0", "0", "0", "0", "0", "0">>

-----------------------------------------------------------------------------
(* Values *)

\* Python's None, and a NULL column.
None == [none |-> TRUE]

\* A field of a request: absent, or present with a value.
Absent == {}
Given(v) == {v}
Has(f) == f # {}
Val(f) == CHOOSE v \in f : TRUE

\* dict.get(key, default) on the query string: request.GET.get('source', d)
GetOr(f, d) == IF Has(f) THEN Val(f) ELSE d

Digit == <<"0", "1", "2", "3", "4", "5", "6", "7", "8", "9">>

\* The decimal digits of n >= 0, most significant first.
RECURSIVE Digits(_)
Digits(n) == IF n < 10 THEN <<Digit[n + 1]>>
             ELSE Digits(n \div 10) \o <<Digit[(n % 10) + 1]>>

\* Python's str(n) of an int, which is also how an f-string formats it.
Str(n) == IF n < 0 THEN <<"-">> \o Digits(-n) ELSE Digits(n)

\* s[:k]
Slice(s, k) == SubSeq(s, 1, IF Len(s) < k THEN Len(s) ELSE k)

\* The barcode__startswith lookup: s starts with p.
StartsWith(s, p) == Len(p) <= Len(s) /\ SubSeq(s, 1, Len(p)) = p

\* The elements of a sequence.
Range(s) == {s[i] : i \in 1..Len(s)}

\* The orders in which a query without ORDER BY may return the rows S.
Orderings(S) == {s \in [1..Cardinality(S) -> S] : Range(s) = S}

\* OrderByDesc without the ordering: the rows as the engine reads them.
Unordered(read) == read

\* ORDER BY key DESC over rows the engine reads in some order: each row is
\* put behind the rows whose key is not smaller.  An element is [k, v].
RECURSIVE InsertDesc(_, _)
InsertDesc(sorted, e) ==
    IF sorted = <<>> THEN <<e>>
    ELSE IF Head(sorted).k >= e.k
         THEN <<Head(sorted)>> \o InsertDesc(Tail(sorted), e)
         ELSE <<e>> \o sorted

RECURSIVE OrderByDesc(_)
OrderByDesc(read) ==
    IF read = <<>> THEN <<>>
    ELSE InsertDesc(OrderByDesc(SubSeq(read, 1, Len(read) - 1)),
                    read[Len(read)])


-----------------------------------------------------------------------------
(* The database engine *)

\* settings.py builds DATABASES from DATABASE_URL, so the engine is a choice
\* of the deployment.  The engines differ in what the handlers below can
\* observe: PostgreSQL rejects a value longer than its varchar(n) column and
\* draws a primary key from its sequence even for an INSERT that fails;
\* SQLite stores text of any length and draws no key for a failed INSERT.
Backends == {"sqlite", "postgresql"}
EnforcesLength(b) == b = "postgresql"
FailedInsertDrawsKey(b) == b = "postgresql"

-----------------------------------------------------------------------------
(* models.py: the tables' rows *)

\* Product(name, sku, barcode, quantity, alert_threshold, created_at), with
\* its primary key.
ProductRow(id, name, sku, barcode, quantity, alert_threshold, created_at) ==
    [id |-> id, name |-> name, sku |-> sku, barcode |-> barcode,
     quantity |-> quantity, alert_threshold |-> alert_threshold,
     created_at |-> created_at]

\* ProductActionLog: product is the nullable foreign key ({} is NULL),
\* timestamp is auto_now_add.
LogRow(product, action, source, quantity_change, threshold_change, t) ==
    [product |-> Given(product.id),
     product_name |-> product.name,
     product_sku |-> product.sku,
     action |-> action,
     source |-> source,
     quantity_change |-> quantity_change,
     threshold_change |-> threshold_change,
     current_quantity |-> product.quantity,
     current_threshold |-> product.alert_threshold,
     timestamp |-> t]

\* ScanHistory(barcode, source, scanned_at): scanned_at is set at creation.
ScanRow(barcode, source, t) ==
    [barcode |-> barcode, source |-> source, scanned_at |-> t]

\* The quantity_change and threshold_change columns hold at most
\* MaxChangeLen characters; an engine that enforces the length refuses the
\* INSERT of a longer value (objects.create runs no validators).
FitsColumns(row) ==
    /\ Len(row.quantity_change) <= MaxChangeLen
    /\ Len(row.threshold_change) <= MaxChangeLen

LogInsertOk(b, row) == EnforcesLength(b) => FitsColumns(row)

\* on_delete=models.DO_NOTHING: the references stay.
SetNullNothing(rows, pk) == rows

\* SetNull as on_delete=CASCADE: the rows that name the product go with it.
SetNullCascade(rows, pk) ==
    SelectSeq(rows, LAMBDA row : row.product # Given(pk))


\* on_delete=models.SET_NULL: deleting product pk clears every reference.
SetNull(rows, pk) ==
    [i \in 1..Len(rows) |->
        IF rows[i].product = Given(pk)
        THEN [rows[i] EXCEPT !.product = Absent]
        ELSE rows[i]]

-----------------------------------------------------------------------------
(* serializers.py: ProductSerializer *)

\* The payload of a POST or PUT.
Data(name, sku, barcode, quantity, alert_threshold) ==
    [name |-> name, sku |-> sku, barcode |-> barcode, quantity |-> quantity,
     alert_threshold |-> alert_threshold]

\* serializer.is_valid(): the fields in error.  name, sku and quantity are
\* required; barcode and alert_threshold have model defaults and may be
\* absent; text may not be blank; sku and barcode are unique among the other
\* products (instance is the product being updated, {} on create); the
\* PositiveIntegerFields have min_value 0.
Errors(data, instance, table) ==
    LET others == {p \in table : Given(p.id) # instance}
    IN  {f \in {"name"} : ~Has(data.name) \/ Val(data.name) = ""}
        \cup
        {f \in {"sku"} : \/ ~Has(data.sku)
                         \/ Val(data.sku) = ""
                         \/ \E p \in others : p.sku = Val(data.sku)}
        \cup
        {f \in {"barcode"} : /\ Has(data.barcode)
                             /\ \/ Val(data.barcode) = <<>>
                                \/ \E p \in others : p.barcode = Val(data.barcode)}
        \cup
        {f \in {"quantity"} : ~Has(data.quantity) \/ Val(data.quantity) < 0}
        \cup
        {f \in {"alert_threshold"} : /\ Has(data.alert_threshold)
                                     /\ Val(data.alert_threshold) < 0}

\* serializer.save() without an instance: Product.objects.create(**validated),
\* the model's defaults filling the absent fields.
Created(data, id, t) ==
    ProductRow(id, Val(data.name), Val(data.sku),
               GetOr(data.barcode, DefaultBarcode),
               Val(data.quantity),
               GetOr(data.alert_threshold, DefaultThreshold), t)

\* serializer.save() with an instance: each validated field is set on it.
Updated(product, data) ==
    [product EXCEPT !.name = Val(data.name),
                    !.sku = Val(data.sku),
                    !.barcode = GetOr(data.barcode, @),
                    !.quantity = Val(data.quantity),
                    !.alert_threshold = GetOr(data.alert_threshold, @)]

\* A Product table without unique constraints.
NoUniqueConstraint(row, table) == FALSE

\* The unique constraints of the Product table, which the INSERT checks.
ViolatesUnique(row, table) ==
    \E p \in table : p.sku = row.sku \/ p.barcode = row.barcode

\* ProductSerializer(product).data
Serialized(product) == product

-----------------------------------------------------------------------------
(* views.py: requests and responses *)

\* A request: the payload, the pk and the barcode of the URL and the source
\* of the query string, each absent where the route has none.
Request(data, pk, barcode, source) ==
    [data |-> data, pk |-> pk, barcode |-> barcode, source |-> source]

\* What the variable response holds: the view and method that ran, its
\* request, and the status and body of its Response.  A body is a record: a
\* JSON object as it is, a JSON array under the field items.
Served(op, req, status, body) ==
    [op |-> op, req |-> req, status |-> status, body |-> body]

\* Response(status=204): no body.
NoContent == [none |-> TRUE]
\* Response(serializer.errors, status=400): the fields in error.
BadRequest(errors) == [errors |-> errors]
\* The 404 of get_object_or_404.
NotFound == [detail |-> "Not found."]
\* The 500 of an exception no handler catches.
ServerError == [detail |-> "Server Error (500)"]
\* Response(data) of a list.
Items(list) == [items |-> list]

\* No request has been served: initially, and when the clock has moved since.
Idle == Served("idle", Request(Absent, Absent, Absent, Absent), 0, NoContent)

\* The change columns of an 'add' row: f"+{product.quantity}".
AddChange(n) == <<"+">> \o Str(n)

\* EditChange without its special case for no difference.
EditChangeAlwaysSigned(diff) ==
    (IF diff >= 0 THEN <<"+">> ELSE <<>>) \o Str(diff)

\* The change columns of an 'edit' row:
\* f"{'+' if diff >= 0 else ''}{diff}" if diff != 0 else "0".
EditChange(diff) ==
    IF diff # 0
    THEN (IF diff >= 0 THEN <<"+">> ELSE <<>>) \o Str(diff)
    ELSE <<"0">>

\* The change columns of a 'delete' row: str(product.quantity).
DeleteChange(n) == Str(n)

\* get_object_or_404(Product, pk=pk)
Lookup(pk) == {p \in products : p.id = pk}

\* products, POST: validate, save the product, then write its 'add' row.
products_POST(data, source) ==
    LET req == Request(Given(data), Absent, Absent, source)
        errors == Errors(data, Absent, products)
        product == Created(data, nextId, now)
        row == LogRow(product, "add", GetOr(source, "manual"),
                      AddChange(product.quantity),
                      AddChange(product.alert_threshold), now)
    IN  /\ nextId <= MaxId
        /\ Len(logs) < MaxLogs
        /\ IF errors # {}
           THEN /\ response' = Served("products.POST", req, 400, BadRequest(errors))
                /\ UNCHANGED <<products, nextId, logs>>
           ELSE IF ViolatesUnique(product, products)
           THEN \* IntegrityError from serializer.save(): nothing is stored
                /\ response' = Served("products.POST", req, 500, ServerError)
                /\ nextId' = IF FailedInsertDrawsKey(backend)
                             THEN nextId + 1 ELSE nextId
                /\ UNCHANGED <<products, logs>>
           ELSE /\ products' = products \cup {product}
                /\ nextId' = nextId + 1
                /\ IF LogInsertOk(backend, row)
                   THEN /\ logs' = Append(logs, row)
                        /\ response' = Served("products.POST", req, 201,
                                              Serialized(product))
                   ELSE \* DataError from ProductActionLog.objects.create
                        /\ logs' = logs
                        /\ response' = Served("products.POST", req, 500, ServerError)
        /\ UNCHANGED <<backend, scans, now, calls>>

\* products, GET: every product, in the order the database returns them.
products_GET ==
    /\ \E list \in Orderings(products) :
          response' = Served("products.GET",
                             Request(Absent, Absent, Absent, Absent), 200,
                             Items([i \in 1..Len(list) |-> Serialized(list[i])]))
    /\ UNCHANGED <<backend, products, nextId, logs, scans, now, calls>>

\* product_detail on a pk no product has: get_object_or_404 answers 404
\* whatever the method, before the payload or the query string is read.
product_detail_404(method, pk) ==
    /\ Lookup(pk) = {}
    /\ response' = Served(method, Request(Absent, Given(pk), Absent, Absent),
                          404, NotFound)
    /\ UNCHANGED <<backend, products, nextId, logs, scans, now, calls>>

\* product_detail, GET
product_detail_GET(pk) ==
    /\ \E product \in Lookup(pk) :
          response' = Served("product_detail.GET",
                             Request(Absent, Given(pk), Absent, Absent), 200,
                             Serialized(product))
    /\ UNCHANGED <<backend, products, nextId, logs, scans, now, calls>>

\* product_detail, PUT: validate against the stored product, save it, then
\* write its 'edit' row with the differences from the values read before.
product_detail_PUT(data, pk, source) ==
    \E old \in Lookup(pk) :
        LET req == Request(Given(data), Given(pk), Absent, source)
            errors == Errors(data, Given(pk), products)
            product == Updated(old, data)
            quantity_diff == product.quantity - old.quantity
            threshold_diff == product.alert_threshold - old.alert_threshold
            row == LogRow(product, "edit", GetOr(source, "manual"),
                          EditChange(quantity_diff),
                          EditChange(threshold_diff), now)
        IN  /\ Len(logs) < MaxLogs
            /\ IF errors # {}
               THEN /\ response' = Served("product_detail.PUT", req, 400, BadRequest(errors))
                    /\ UNCHANGED <<products, logs>>
               ELSE IF ViolatesUnique(product, products \ {old})
               THEN \* IntegrityError from serializer.save()
                    /\ response' = Served("product_detail.PUT", req, 500,
                                          ServerError)
                    /\ UNCHANGED <<products, logs>>
               ELSE /\ products' = (products \ {old}) \cup {product}
                    /\ IF LogInsertOk(backend, row)
                       THEN /\ logs' = Append(logs, row)
                            /\ response' = Served("product_detail.PUT", req,
                                                  200, Serialized(product))
                       ELSE /\ logs' = logs
                            /\ response' = Served("product_detail.PUT", req,
                                                  500, ServerError)
            /\ UNCHANGED <<backend, nextId, scans, now, calls>>

\* product_detail, DELETE: write the 'delete' row, then delete the product,
\* which clears the product reference of every row that names it.
product_detail_DELETE(pk, source) ==
    \E product \in Lookup(pk) :
        LET req == Request(Absent, Given(pk), Absent, source)
            row == LogRow(product, "delete", GetOr(source, "manual"),
                          DeleteChange(product.quantity),
                          DeleteChange(product.alert_threshold), now)
        IN  /\ Len(logs) < MaxLogs
            /\ IF LogInsertOk(backend, row)
               THEN /\ logs' = SetNull(Append(logs, row), pk)
                    /\ products' = products \ {product}
                    /\ response' = Served("product_detail.DELETE", req, 204, NoContent)
               ELSE /\ UNCHANGED <<products, logs>>
                    /\ response' = Served("product_detail.DELETE", req, 500, ServerError)
            /\ UNCHANGED <<backend, nextId, scans, now, calls>>

-----------------------------------------------------------------------------
(* views.py: scanning and the reports *)

\* Product.objects.filter(barcode=barcode).first(): the match of lowest pk.
FirstByBarcode(barcode) ==
    LET found == {p \in products : p.barcode = barcode}
    IN  {p \in found : \A q \in found : p.id <= q.id}

\* Similar without the cut to PrefixLen characters.
SimilarWhole(barcode) ==
    {p \in products : StartsWith(p.barcode, barcode)}

\* Product.objects.filter(barcode__startswith=barcode[:6])
Similar(barcode) ==
    {p \in products : StartsWith(p.barcode, Slice(barcode, PrefixLen))}

\* queryset[:5] of a query without ORDER BY: at most SimilarLimit of the
\* matches, whichever the engine returns first.  The order of the rows is the
\* engine's too, and the model leaves it out: a result is the set of its rows.
Limited(S) ==
    LET n == IF Cardinality(S) < SimilarLimit THEN Cardinality(S)
             ELSE SimilarLimit
    IN  {T \in SUBSET S : Cardinality(T) = n}

\* ScanSource with the default of the action log.
ScanSourceManual(source) == GetOr(source, "manual")

\* request.query_params.get('source', 'scanner')
ScanSource(source) == GetOr(source, "scanner")

\* product_by_barcode: record the scan, then answer with the exact match,
\* else with the similar products, else with 404.
product_by_barcode(barcode, source) ==
    LET req == Request(Absent, Absent, Given(barcode), source)
        exact_product == FirstByBarcode(barcode)
    IN  /\ Len(scans) < MaxScans
        /\ scans' = Append(scans, ScanRow(barcode, ScanSource(source), now))
        /\ IF exact_product # {}
           THEN response' = Served("product_by_barcode", req, 200,
                                   [exact |-> Serialized(Val(exact_product))])
           ELSE \E similar_products \in Limited(Similar(barcode)) :
                   IF similar_products # {}
                   THEN response' = Served("product_by_barcode", req, 200,
                           [similar |-> {Serialized(p) : p \in similar_products}])
                   ELSE response' = Served("product_by_barcode", req, 404,
                                           [detail |-> "Not found"])
        /\ UNCHANGED <<backend, products, nextId, logs, now, calls>>

\* The rows of a table sorted by key newest first, for some order in which
\* the engine reads them.
NewestFirst(table, key) ==
    {LET read == [i \in 1..Len(table) |-> [k |-> key[order[i]],
                                             v |-> table[order[i]]]]
         sorted == OrderByDesc(read)
     IN  [i \in 1..Len(sorted) |-> sorted[i].v] :
        order \in Orderings(1..Len(table))}

\* The sort keys of order_by('-scanned_at') and order_by('-timestamp').
ScannedAt(table) == [i \in 1..Len(table) |-> table[i].scanned_at]
Timestamp(table) == [i \in 1..Len(table) |-> table[i].timestamp]

\* scan_history: the entry of one scan, with the product that has its
\* barcode now.
HistoryEntry(entry) ==
    LET product == FirstByBarcode(entry.barcode)
    IN  [barcode |-> entry.barcode,
         scanned_at |-> entry.scanned_at,
         product |-> IF product # {}
                     THEN [name |-> Val(product).name,
                           sku |-> Val(product).sku,
                           id |-> Val(product).id]
                     ELSE None]

\* scan_history
scan_history ==
    /\ \E history \in NewestFirst(scans, ScannedAt(scans)) :
          response' = Served("scan_history",
                             Request(Absent, Absent, Absent, Absent), 200,
                             Items([i \in 1..Len(history) |->
                                       HistoryEntry(history[i])]))
    /\ UNCHANGED <<backend, products, nextId, logs, scans, now, calls>>

\* Date with the instant for the day.
DateAsInstant(t) == t

\* localdate(), and the __date of a timestamp: the calendar day of a tick.
Date(t) == t \div TicksPerDay

\* TodayEntry with the entry of scan_history.
TodayAsHistory(obj) == HistoryEntry(obj)

\* ScanHistorySerializer: barcode, scanned_at and get_product(obj).
TodayEntry(obj) ==
    LET product == FirstByBarcode(obj.barcode)
    IN  [barcode |-> obj.barcode,
         scanned_at |-> obj.scanned_at,
         product |-> [name |-> IF product # {} THEN Val(product).name
                               ELSE "Unknown",
                      sku |-> IF product # {} THEN Val(product).sku
                              ELSE "Unknown"]]

\* ScanHistory.objects.filter(scanned_at__date=today)
ScannedOn(table, today) ==
    SelectSeq(table, LAMBDA entry : Date(entry.scanned_at) = today)

\* scan_today
scan_today ==
    /\ \E list \in NewestFirst(ScannedOn(scans, Date(now)),
                                   ScannedAt(ScannedOn(scans, Date(now)))) :
          response' = Served("scan_today",
                             Request(Absent, Absent, Absent, Absent), 200,
                             Items([i \in 1..Len(list) |-> TodayEntry(list[i])]))
    /\ UNCHANGED <<backend, products, nextId, logs, scans, now, calls>>

\* product_logs: the entry of one row.
LogEntry(log) ==
    [product |-> [name |-> log.product_name,
                  sku |-> log.product_sku,
                  id |-> log.product],
     action |-> log.action,
     source |-> log.source,
     quantity_change |-> log.quantity_change,
     threshold_change |-> log.threshold_change,
     current_quantity |-> log.current_quantity,
     current_threshold |-> log.current_threshold,
     timestamp |-> log.timestamp]

\* product_logs
product_logs ==
    /\ \E list \in NewestFirst(logs, Timestamp(logs)) :
          response' = Served("product_logs",
                             Request(Absent, Absent, Absent, Absent), 200,
                             Items([i \in 1..Len(list) |-> LogEntry(list[i])]))
    /\ UNCHANGED <<backend, products, nextId, logs, scans, now, calls>>

\* Time passes between requests.
Tick ==
    /\ now < MaxClock
    /\ now' = now + 1
    /\ response' = Idle
    /\ UNCHANGED <<backend, products, nextId, logs, scans, calls>>

-----------------------------------------------------------------------------
(* views.py statement by statement: the database runs in autocommit (no      *)
(* ATOMIC_REQUESTS, no transaction.atomic), so each query of a handler is a  *)
(* step of its own and the queries of two workers interleave.                *)

Workers == 1..MaxWorkers

\* A worker between requests.
NoCall == [pc |-> "idle", req |-> Request(Absent, Absent, Absent, Absent),
           product |-> Absent, old |-> Absent]

\* A worker at statement pc of the handler of req, holding the product
\* instance it has in memory and the old values it read.
Call(pc, req, product, old) ==
    [pc |-> pc, req |-> req, product |-> product, old |-> old]

\* The log rows the model still has room for, counting the requests in
\* flight.
Room == Len(logs) + Cardinality({w \in Workers : calls[w].pc # "idle"}) < MaxLogs

\* The worker answers and is free again.
Answer(w, op, status, body) ==
    /\ response' = Served(op, calls[w].req, status, body)
    /\ calls' = [calls EXCEPT ![w] = NoCall]

\* The worker goes on to statement pc.
Goto(w, pc, product) ==
    /\ calls' = [calls EXCEPT ![w] = Call(pc, calls[w].req, product, calls[w].old)]
    /\ UNCHANGED response

\* products, POST: serializer.is_valid()
POST_is_valid(w, data, source) ==
    LET req == Request(Given(data), Absent, Absent, source)
        errors == Errors(data, Absent, products)
    IN  /\ calls[w].pc = "idle"
        /\ nextId <= MaxId
        /\ Room
        /\ IF errors # {}
           THEN /\ response' = Served("products.POST", req, 400, BadRequest(errors))
                /\ UNCHANGED calls
           ELSE /\ calls' = [calls EXCEPT ![w] = Call("POST.save", req, Absent, Absent)]
                /\ UNCHANGED response
        /\ UNCHANGED <<backend, products, nextId, logs, scans, now>>

\* products, POST: product = serializer.save()
POST_save(w) ==
    LET product == Created(Val(calls[w].req.data), nextId, now)
    IN  /\ calls[w].pc = "POST.save"
        /\ IF ViolatesUnique(product, products)
           THEN /\ Answer(w, "products.POST", 500, ServerError)
                /\ nextId' = IF FailedInsertDrawsKey(backend)
                             THEN nextId + 1 ELSE nextId
                /\ UNCHANGED products
           ELSE /\ products' = products \cup {product}
                /\ nextId' = nextId + 1
                /\ Goto(w, "POST.log", Given(product))
        /\ UNCHANGED <<backend, logs, scans, now>>

\* The INSERT of a log row: refused when the product it names is gone
\* (foreign key) or when a change column is too long for the engine.
LogInsertAccepted(row) ==
    /\ Lookup(Val(row.product)) # {}
    /\ LogInsertOk(backend, row)

\* products, POST: ProductActionLog.objects.create(...) and the response.
POST_log(w) ==
    LET product == Val(calls[w].product)
        row == LogRow(product, "add", GetOr(calls[w].req.source, "manual"),
                      AddChange(product.quantity),
                      AddChange(product.alert_threshold), now)
    IN  /\ calls[w].pc = "POST.log"
        /\ IF LogInsertAccepted(row)
           THEN /\ logs' = Append(logs, row)
                /\ Answer(w, "products.POST", 201, Serialized(product))
           ELSE /\ logs' = logs
                /\ Answer(w, "products.POST", 500, ServerError)
        /\ UNCHANGED <<backend, products, nextId, scans, now>>

\* product_detail, PUT: get_object_or_404, old_quantity and old_threshold.
PUT_get_object(w, data, pk, source) ==
    /\ calls[w].pc = "idle"
    /\ Room
    /\ \E product \in Lookup(pk) :
          calls' = [calls EXCEPT ![w] =
                       Call("PUT.is_valid",
                            Request(Given(data), Given(pk), Absent, source),
                            Given(product),
                            Given([quantity |-> product.quantity,
                                   alert_threshold |-> product.alert_threshold]))]
    /\ UNCHANGED <<backend, products, nextId, logs, scans, now, response>>

\* product_detail, PUT: serializer.is_valid()
PUT_is_valid(w) ==
    LET errors == Errors(Val(calls[w].req.data), calls[w].req.pk, products)
    IN  /\ calls[w].pc = "PUT.is_valid"
        /\ IF errors # {}
           THEN Answer(w, "product_detail.PUT", 400, BadRequest(errors))
           ELSE Goto(w, "PUT.save", calls[w].product)
        /\ UNCHANGED <<backend, products, nextId, logs, scans, now>>

\* product_detail, PUT: product = serializer.save().  Model.save() writes
\* every field of the instance in memory over the row of its pk, and inserts
\* the row (created_at set anew) when the UPDATE finds none.
PUT_save(w) ==
    LET pk == Val(calls[w].req.pk)
        updated == Updated(Val(calls[w].product), Val(calls[w].req.data))
        product == IF Lookup(pk) # {} THEN updated
                   ELSE [updated EXCEPT !.created_at = now]
    IN  /\ calls[w].pc = "PUT.save"
        /\ IF ViolatesUnique(product, products \ Lookup(pk))
           THEN /\ Answer(w, "product_detail.PUT", 500, ServerError)
                /\ UNCHANGED products
           ELSE /\ products' = (products \ Lookup(pk)) \cup {product}
                /\ Goto(w, "PUT.log", Given(product))
        /\ UNCHANGED <<backend, nextId, logs, scans, now>>

\* product_detail, PUT: the differences from the old values,
\* ProductActionLog.objects.create(...) and the response.
PUT_log(w) ==
    LET product == Val(calls[w].product)
        old == Val(calls[w].old)
        row == LogRow(product, "edit", GetOr(calls[w].req.source, "manual"),
                      EditChange(product.quantity - old.quantity),
                      EditChange(product.alert_threshold - old.alert_threshold),
                      now)
    IN  /\ calls[w].pc = "PUT.log"
        /\ IF LogInsertAccepted(row)
           THEN /\ logs' = Append(logs, row)
                /\ Answer(w, "product_detail.PUT", 200, Serialized(product))
           ELSE /\ logs' = logs
                /\ Answer(w, "product_detail.PUT", 500, ServerError)
        /\ UNCHANGED <<backend, products, nextId, scans, now>>

\* product_detail, DELETE: get_object_or_404
DELETE_get_object(w, pk, source) ==
    /\ calls[w].pc = "idle"
    /\ Room
    /\ \E product \in Lookup(pk) :
          calls' = [calls EXCEPT ![w] =
                       Call("DELETE.log",
                            Request(Absent, Given(pk), Absent, source),
                            Given(product), Absent)]
    /\ UNCHANGED <<backend, products, nextId, logs, scans, now, response>>

\* DELETE_log deleting the product first, the row being left for afterwards.
DELETE_product_first(w) ==
    /\ calls[w].pc = "DELETE.log"
    /\ products' = products \ Lookup(Val(calls[w].req.pk))
    /\ logs' = SetNull(logs, Val(calls[w].req.pk))
    /\ Goto(w, "DELETE.delete", calls[w].product)
    /\ UNCHANGED <<backend, nextId, scans, now>>

\* product_detail, DELETE: ProductActionLog.objects.create(...)
DELETE_log(w) ==
    LET product == Val(calls[w].product)
        row == LogRow(product, "delete", GetOr(calls[w].req.source, "manual"),
                      DeleteChange(product.quantity),
                      DeleteChange(product.alert_threshold), now)
    IN  /\ calls[w].pc = "DELETE.log"
        /\ IF LogInsertAccepted(row)
           THEN /\ logs' = Append(logs, row)
                /\ Goto(w, "DELETE.delete", calls[w].product)
           ELSE /\ logs' = logs
                /\ Answer(w, "product_detail.DELETE", 500, ServerError)
        /\ UNCHANGED <<backend, products, nextId, scans, now>>

\* product_detail, DELETE: product.delete() and the response.  The delete
\* clears the references to the product and removes its row in one
\* transaction of the ORM.
DELETE_delete(w) ==
    LET pk == Val(calls[w].req.pk)
    IN  /\ calls[w].pc = "DELETE.delete"
        /\ products' = products \ Lookup(pk)
        /\ logs' = SetNull(logs, pk)
        /\ Answer(w, "product_detail.DELETE", 204, NoContent)
        /\ UNCHANGED <<backend, nextId, scans, now>>

\* The op of the request a worker is serving.
OpOf(call) ==
    IF call.pc \in {"POST.save", "POST.log"} THEN "products.POST"
    ELSE IF call.pc \in {"PUT.is_valid", "PUT.save", "PUT.log"}
    THEN "product_detail.PUT"
    ELSE "product_detail.DELETE"

\* A request aborts between two statements (the worker dies, the connection
\* to the database is lost): what it has written stays, what it had still to
\* write is never written, and the client gets an error.
Abort(w) ==
    /\ calls[w].pc # "idle"
    /\ Answer(w, OpOf(calls[w]), 500, ServerError)
    /\ UNCHANGED <<backend, products, nextId, logs, scans, now>>

-----------------------------------------------------------------------------
(* The requests the model sends *)

BcWidget == <<"9", "9", "9", "8", "8", "8", "7">>
BcVariant == <<"9", "9", "9", "8", "8", "8", "0">>
BcUnknown == <<"1", "2", "3">>

\* A quantity whose '+' form is one character longer than MaxChangeLen.
TenDigits == 1000000000

\* Valid payloads: the two products of tests.py (their barcodes cut to
\* seven characters), a renamed Widget of ten-digit quantity, and two that
\* leave the barcode, and one of them the threshold too, to the model's
\* defaults.
Widget == Data(Given("Widget"), Given("WID123"), Given(BcWidget),
               Given(12), Given(5))
Variant == Data(Given("Widget Variant"), Given("WIDVAR"), Given(BcVariant),
                Given(20), Given(4))
Bulk == Data(Given("Gizmo"), Given("WID123"), Given(BcWidget),
             Given(TenDigits), Given(5))
Plain == Data(Given("Widget Variant"), Given("WIDVAR"), Absent,
              Given(0), Given(7))
Spare == Data(Given("Widget"), Given("WID123"), Absent,
              Given(12), Absent)
ValidData == {Widget, Bulk, Plain, Spare}

\* Invalid payloads: the bad_data of tests.py, and one for each single fault.
BadData == Data(Given(""), Given("DUPLICATE"), Given(<<>>), Given(-5), Given(-1))
InvalidData ==
    {BadData,
     [Widget EXCEPT !.quantity = Given(-1)],
     [Widget EXCEPT !.alert_threshold = Given(-1)],
     [Widget EXCEPT !.name = Given("")],
     [Widget EXCEPT !.barcode = Given(<<>>)],
     [Plain EXCEPT !.barcode = Given(BcWidget)]}

Payloads == ValidData \cup InvalidData

\* The ?source= of the query string.
Sources == {Absent, Given("api")}

\* The barcodes scanned.
Scanned == {BcWidget, BcVariant, BcUnknown, DefaultBarcode}

\* @api_view(['GET', 'PUT', 'DELETE']) of product_detail.
Methods == {"product_detail.GET", "product_detail.PUT", "product_detail.DELETE"}

\* The pks of the URLs.
Pks == 1..MaxId

-----------------------------------------------------------------------------
(* The state machine *)

Init ==
    /\ backend \in Backends
    /\ products = {}
    /\ nextId = 1
    /\ logs = <<>>
    /\ scans = <<>>
    /\ now = 0
    /\ response = Idle
    /\ calls = [w \in Workers |-> NoCall]

\* The requests that write products, with payloads from D and sources
\* from S.
Creates(D, S) ==
    \E data \in D, source \in S : products_POST(data, source)

Updates(D, S) ==
    \E data \in D, pk \in Pks, source \in S :
        product_detail_PUT(data, pk, source)

Deletes(S) ==
    \E pk \in Pks, source \in S : product_detail_DELETE(pk, source)

\* The requests that read products.
Reads ==
    \/ products_GET
    \/ \E pk \in Pks : product_detail_GET(pk)

\* The requests for a product that does not exist.
Missing ==
    \E pk \in Pks, method \in Methods : product_detail_404(method, pk)

\* Every product request.
Crud(D, S) ==
    Creates(D, S) \/ Updates(D, S) \/ Deletes(S) \/ Reads \/ Missing

\* The scans of barcodes from B, with sources from S.
Scanning(B, S) ==
    \E barcode \in B, source \in S : product_by_barcode(barcode, source)

\* The reports.
Reports == scan_history \/ scan_today \/ product_logs

Next ==
    \/ Crud(Payloads, Sources)
    \/ Scanning(Scanned, Sources)
    \/ Reports
    \/ Tick

Spec == Init /\ [][Next]_vars

\* The product requests alone: the clock stands and nothing is scanned.
NextAudit == Crud(Payloads, Sources)
SpecAudit == Init /\ [][NextAudit]_vars

\* Scans and reports over time, while the two products of tests.py come and
\* go.
NextScan ==
    \/ Creates({Widget, Variant}, {Absent})
    \/ Deletes({Absent})
    \/ Scanning({BcWidget, BcVariant}, Sources)
    \/ Reports
    \/ Tick
SpecScan == Init /\ [][NextScan]_vars

\* Every kind of request, audited and not, over a few payloads.
NextLedger ==
    \/ Crud({Widget, Bulk, BadData}, Sources)
    \/ Scanning({BcWidget}, {Absent})
    \/ Reports
SpecLedger == Init /\ [][NextLedger]_vars

\* The audited requests statement by statement, served by the workers W
\* with payloads from D and sources from S.
CreateSteps(W, D, S) ==
    \E w \in W :
        \/ \E data \in D, source \in S : POST_is_valid(w, data, source)
        \/ POST_save(w)
        \/ POST_log(w)

UpdateSteps(W, D, S) ==
    \E w \in W :
        \/ \E data \in D, pk \in Pks, source \in S :
              PUT_get_object(w, data, pk, source)
        \/ PUT_is_valid(w)
        \/ PUT_save(w)
        \/ PUT_log(w)

DeleteSteps(W, S) ==
    \E w \in W :
        \/ \E pk \in Pks, source \in S : DELETE_get_object(w, pk, source)
        \/ DELETE_log(w)
        \/ DELETE_delete(w)

\* One worker, whose request may abort between any two statements.
NextCrash ==
    \/ CreateSteps({1}, {Widget, BadData}, {Absent})
    \/ UpdateSteps({1}, {Variant}, {Absent})
    \/ DeleteSteps({1}, {Absent})
    \/ Abort(1)
SpecCrash == Init /\ [][NextCrash]_vars

\* The workers create and update products at the same time; every request
\* runs to its end.
NextRace ==
    \/ CreateSteps(Workers, {Widget}, {Absent})
    \/ UpdateSteps(Workers, {Variant, Plain, BadData}, {Absent})
SpecRace == Init /\ [][NextRace]_vars

\* Barcode resolution over a catalogue: any of these products, registered
\* through the admin site (admin.py), which writes no ProductActionLog row.
\* Six share the first six characters of BcWidget, one shares only five, two
\* are told apart by the scanned prefix <<"1", "2">>, and one has BcWidget.
Catalogue ==
    <<BcVariant,
      <<"9", "9", "9", "8", "8", "8", "1">>,
      <<"9", "9", "9", "8", "8", "8", "2">>,
      <<"9", "9", "9", "8", "8", "8", "3">>,
      <<"9", "9", "9", "8", "8", "8", "4">>,
      <<"9", "9", "9", "8", "8", "8", "5">>,
      <<"9", "9", "9", "8", "8", "7", "7">>,
      BcUnknown,
      <<"1">>,
      BcWidget>>

CatalogueSku ==
    <<"SKU01", "SKU02", "SKU03", "SKU04", "SKU05",
      "SKU06", "SKU07", "SKU08", "SKU09", "SKU10">>

InitResolve ==
    /\ backend \in Backends
    /\ \E ids \in SUBSET (1..Len(Catalogue)) :
          products = {ProductRow(i, "Widget", CatalogueSku[i], Catalogue[i],
                                 12, 5, 0) : i \in ids}
    /\ nextId = Len(Catalogue) + 1
    /\ logs = <<>>
    /\ scans = <<>>
    /\ now = 0
    /\ response = Idle
    /\ calls = [w \in Workers |-> NoCall]

NextResolve == Scanning({BcWidget, <<"1", "2">>}, Sources)
SpecResolve == InitResolve /\ [][NextResolve]_vars

-----------------------------------------------------------------------------
(* What the claims speak of *)

\* The number a string of decimal digits denotes, read digit by digit.
DigitValue(c) == CHOOSE d \in 0..9 : Digit[d + 1] = c

RECURSIVE DecValue(_)
DecValue(s) ==
    IF s = <<>> THEN 0
    ELSE 10 * DecValue(SubSeq(s, 1, Len(s) - 1)) + DigitValue(s[Len(s)])

\* s is the decimal string of n >= 0: digits only, no leading zero.
IsDecimalOf(s, n) ==
    /\ Len(s) >= 1
    /\ \A i \in 1..Len(s) : s[i] \in Range(Digit)
    /\ Len(s) > 1 => s[1] # "0"
    /\ DecValue(s) = n

\* s is sign followed by the decimal string of n.
IsSigned(s, sign, n) ==
    /\ Len(s) >= 2
    /\ s[1] = sign
    /\ IsDecimalOf(Tail(s), n)

\* The request and the outcome of the step just taken.
Op == response.op
Payload == Val(response.req.data)
Pk == Val(response.req.pk)
LastLog == logs[Len(logs)]
ById(table, pk) == CHOOSE p \in table : p.id = pk

\* The step appends exactly one row to the action log and, but for product
\* references, rewrites none.
OneRowLogged ==
    /\ Len(logs') = Len(logs) + 1
    /\ \A i \in 1..Len(logs) :
          [logs'[i] EXCEPT !.product = Absent] = [logs[i] EXCEPT !.product = Absent]

-----------------------------------------------------------------------------
(* C1 *)

\* A valid create request, in the claim's words: a name, a sku and a barcode
\* no product has, and a quantity and a threshold that are not negative (the
\* threshold may be left to its default).
C1_Valid(data, table) ==
    /\ Has(data.name) /\ Val(data.name) # ""
    /\ Has(data.sku) /\ Val(data.sku) # ""
    /\ \A p \in table : p.sku # Val(data.sku)
    /\ Has(data.barcode) /\ Val(data.barcode) # <<>>
    /\ \A p \in table : p.barcode # Val(data.barcode)
    /\ Has(data.quantity) /\ Val(data.quantity) >= 0
    /\ Has(data.alert_threshold) => Val(data.alert_threshold) >= 0

\* The step stores the product of data and one 'add' row that describes it.
C1_Added(data, source) ==
    LET quantity == Val(data.quantity)
        threshold == GetOr(data.alert_threshold, DefaultThreshold)
        row == logs'[Len(logs')]
    IN  /\ OneRowLogged
        /\ \E p \in products' \ products :
              /\ p.quantity = quantity
              /\ p.alert_threshold = threshold
              /\ row.product = Given(p.id)
              /\ row.product_name = p.name
              /\ row.product_sku = p.sku
        /\ row.action = "add"
        /\ IsSigned(row.quantity_change, "+", quantity)
        /\ IsSigned(row.threshold_change, "+", threshold)
        /\ row.current_quantity = quantity
        /\ row.current_threshold = threshold
        /\ row.source = GetOr(source, "manual")

\* C1: every valid create-product request adds exactly one ProductActionLog
\* row, with action "add", quantity_change "+" and the decimal quantity,
\* threshold_change "+" and the decimal alert_threshold, current_quantity and
\* current_threshold the new product's values, and source the supplied source
\* or "manual".
C1_ValidCreateLogsOneAddRow ==
    [][(Op' = "products.POST" /\ C1_Valid(Payload', products))
          => C1_Added(Payload', response'.req.source)]_vars

-----------------------------------------------------------------------------
(* C2 *)

\* s is the change column of a difference d: "0", "+N" or "-N".
C2_Change(s, d) ==
    IF d = 0 THEN s = <<"0">>
    ELSE IF d > 0 THEN IsSigned(s, "+", d)
    ELSE IsSigned(s, "-", 0 - d)

\* C2: every successful PUT of a product writes one row with action "edit"
\* whose quantity_change is "0", "+N" or "-N" for the difference between the
\* new and the old quantity, whose threshold_change is the same for
\* alert_threshold, and whose current_quantity and current_threshold are the
\* values after the edit.
C2_EditRowHasSignedDifferences ==
    [][(Op' = "product_detail.PUT" /\ response'.status = 200)
          => LET before == ById(products, Pk')
                 after == ById(products', Pk')
                 row == logs'[Len(logs')]
             IN  /\ OneRowLogged
                 /\ row.action = "edit"
                 /\ C2_Change(row.quantity_change,
                              after.quantity - before.quantity)
                 /\ C2_Change(row.threshold_change,
                              after.alert_threshold - before.alert_threshold)
                 /\ row.current_quantity = after.quantity
                 /\ row.current_threshold = after.alert_threshold
                 /\ after.quantity = Val(Payload'.quantity)]_vars

\* A PUT has lowered the quantity by a two-digit amount and raised the
\* threshold.
C2_Witness ==
    /\ Op = "product_detail.PUT"
    /\ response.status = 200
    /\ LastLog.quantity_change = <<"-", "1", "2">>
    /\ LastLog.threshold_change = <<"+", "2">>

-----------------------------------------------------------------------------
(* C3 *)

\* C3: a successful DELETE leaves every row that referenced the product,
\* the new 'delete' row included, without a product reference, and every
\* row with the product_name and product_sku it was written with; the
\* 'delete' row has the name and sku the product had, the unsigned decimal
\* quantity and threshold as quantity_change and threshold_change, and the
\* same values as current_quantity and current_threshold.
C3_DeleteClearsReferences ==
    [][(Op' = "product_detail.DELETE" /\ response'.status = 204)
          => LET product == ById(products, Pk')
                 row == logs'[Len(logs')]
             IN  /\ OneRowLogged
                 /\ \A p \in products' : p.id # Pk'
                 /\ \A i \in 1..Len(logs') : logs'[i].product # Given(Pk')
                 /\ \A i \in 1..Len(logs) :
                       logs[i].product # Given(Pk') => logs'[i] = logs[i]
                 /\ row.product = Absent
                 /\ row.action = "delete"
                 /\ row.product_name = product.name
                 /\ row.product_sku = product.sku
                 /\ IsDecimalOf(row.quantity_change, product.quantity)
                 /\ IsDecimalOf(row.threshold_change, product.alert_threshold)
                 /\ row.current_quantity = product.quantity
                 /\ row.current_threshold = product.alert_threshold]_vars

\* A product was added, renamed by an edit and deleted: its three rows have
\* no product reference and the names they were written with.
C3_Witness ==
    /\ Op = "product_detail.DELETE"
    /\ response.status = 204
    /\ Len(logs) = 3
    /\ logs[1].action = "add" /\ logs[2].action = "edit"
    /\ \A i \in 1..3 : logs[i].product = Absent
    /\ logs[1].product_name # logs[2].product_name
    /\ logs[3].product_name = logs[2].product_name

-----------------------------------------------------------------------------
(* C6 *)

\* C6: in every reachable state no two products share a sku or a barcode and
\* no quantity or alert_threshold is negative; and a PUT that keeps the
\* product's own sku or barcode is not rejected for it.
C6_UniqueAndNonNegative ==
    /\ \A p, q \in products :
          (p.id = q.id \/ p.sku = q.sku \/ p.barcode = q.barcode) => p = q
    /\ \A p \in products : p.quantity >= 0 /\ p.alert_threshold >= 0
    /\ (Op = "product_detail.PUT" /\ response.status = 400)
          => LET own == ById(products, Pk)
             IN  /\ Payload.sku = Given(own.sku)
                    => "sku" \notin response.body.errors
                 /\ Payload.barcode = Given(own.barcode)
                    => "barcode" \notin response.body.errors

\* Two products are stored, and the last request was a PUT that sent its
\* product's own sku (the one its previous row shows) and barcode and was
\* accepted.
C6_Witness ==
    /\ Cardinality(products) = 2
    /\ Op = "product_detail.PUT"
    /\ response.status = 200
    /\ Payload.sku = Given(response.body.sku)
    /\ Payload.barcode = Given(response.body.barcode)
    /\ Len(logs) = 3
    /\ logs[2].product = Given(Pk)
    /\ logs[2].product_sku = response.body.sku

-----------------------------------------------------------------------------
(* C7 *)

\* Invalid data, in the claim's words: a negative quantity, a negative
\* alert_threshold, an empty name, a missing barcode, or a sku or barcode
\* that another product uses.
C7_Invalid(data, others) ==
    \/ Has(data.quantity) /\ Val(data.quantity) < 0
    \/ Has(data.alert_threshold) /\ Val(data.alert_threshold) < 0
    \/ data.name = Given("")
    \/ ~Has(data.barcode) \/ data.barcode = Given(<<>>)
    \/ \E p \in others : data.sku = Given(p.sku) \/ data.barcode = Given(p.barcode)

\* The step answers 400 with the fields in error and writes nothing.
C7_Rejected ==
    /\ response'.status = 400
    /\ response'.body.errors # {}
    /\ UNCHANGED <<products, logs>>

\* C7: a create or update request with invalid data is answered 400 with
\* per-field errors and changes no Product row and no ProductActionLog row;
\* GET, PUT or DELETE of a product id that does not exist is answered 404 and
\* writes no row.
C7_InvalidRequestsChangeNothing ==
    [][/\ (Op' = "products.POST" /\ C7_Invalid(Payload', products))
             => C7_Rejected
       /\ (Op' = "product_detail.PUT" /\ Lookup(Pk') # {}
              /\ C7_Invalid(Payload', products \ Lookup(Pk')))
             => C7_Rejected
       /\ (Op' \in Methods /\ Lookup(Pk') = {})
             => /\ response'.status = 404
                /\ UNCHANGED <<products, logs>>]_vars

-----------------------------------------------------------------------------
(* C4 *)

Scan == Val(response.req.barcode)
LastScan == scans[Len(scans)]

\* C4: every barcode lookup, whatever its answer (exact, similar or 404),
\* adds exactly one ScanHistory row with the scanned barcode and the supplied
\* source, or "scanner" when none is supplied, and changes no Product row and
\* no ProductActionLog row.  (The row is written and the lookup made in one
\* step of the model; nothing can observe the one without the other.)
C4_EveryLookupRecordsOneScan ==
    [][Op' = "product_by_barcode"
          => /\ Len(scans') = Len(scans) + 1
             /\ SubSeq(scans', 1, Len(scans)) = scans
             /\ LastScan'.barcode = Scan'
             /\ LastScan'.source
                   = (IF response'.req.source = Absent THEN "scanner"
                      ELSE Val(response'.req.source))
             /\ response'.status \in {200, 404}
             /\ UNCHANGED <<products, logs>>]_vars

\* A lookup without a source was answered 404 and its scan is on record as a
\* "scanner" scan, behind the scan of a lookup that named its source.
C4_Witness ==
    /\ Op = "product_by_barcode"
    /\ response.status = 404
    /\ response.req.source = Absent
    /\ LastScan.barcode = Scan
    /\ LastScan.source = "scanner"
    /\ Len(scans) = 2
    /\ scans[1].source = "api"

-----------------------------------------------------------------------------
(* C5 *)

\* The first 6 characters of b, or all of b when it has fewer.
C5_Prefix(b) == [i \in 1..(IF Len(b) < 6 THEN Len(b) ELSE 6) |-> b[i]]

\* The products whose barcode starts with the prefix of b.
C5_Sharing(b) ==
    {p \in products :
        /\ Len(p.barcode) >= Len(C5_Prefix(b))
        /\ \A i \in 1..Len(C5_Prefix(b)) : p.barcode[i] = b[i]}

-----------------------------------------------------------------------------
(* C8 *)

ItemsReturned == response.body.items

\* The ways to pair n entries with n rows, one to one.
C8_Pairings(n) == {f \in [1..n -> 1..n] : \A i, j \in 1..n : f[i] = f[j] => i = j}

\* C8: the action log report returns every ProductActionLog row and the scan
\* history report every ScanHistory row, each row once, and of any two
\* consecutive entries the earlier one's timestamp is not older than the
\* later one's.
C8_ReportsAreCompleteAndNewestFirst ==
    /\ Op = "product_logs"
          => /\ Len(ItemsReturned) = Len(logs)
             /\ \E f \in C8_Pairings(Len(logs)) :
                   \A i \in 1..Len(logs) :
                      LET entry == ItemsReturned[i]
                          log == logs[f[i]]
                      IN  /\ entry.timestamp = log.timestamp
                          /\ entry.action = log.action
                          /\ entry.source = log.source
                          /\ entry.product.name = log.product_name
                          /\ entry.product.sku = log.product_sku
                          /\ entry.product.id = log.product
                          /\ entry.quantity_change = log.quantity_change
                          /\ entry.threshold_change = log.threshold_change
                          /\ entry.current_quantity = log.current_quantity
                          /\ entry.current_threshold = log.current_threshold
             /\ \A i \in 1..(Len(ItemsReturned) - 1) :
                   ItemsReturned[i].timestamp >= ItemsReturned[i + 1].timestamp
    /\ Op = "scan_history"
          => /\ Len(ItemsReturned) = Len(scans)
             /\ \E f \in C8_Pairings(Len(scans)) :
                   \A i \in 1..Len(scans) :
                      /\ ItemsReturned[i].barcode = scans[f[i]].barcode
                      /\ ItemsReturned[i].scanned_at = scans[f[i]].scanned_at
             /\ \A i \in 1..(Len(ItemsReturned) - 1) :
                   ItemsReturned[i].scanned_at >= ItemsReturned[i + 1].scanned_at

\* The action log report lists three rows written at three different times,
\* the last written first.
C8_Witness ==
    /\ Op = "product_logs"
    /\ Len(ItemsReturned) = 3
    /\ logs[1].timestamp < logs[2].timestamp
    /\ logs[2].timestamp < logs[3].timestamp
    /\ ItemsReturned[1].timestamp = logs[3].timestamp
    /\ ItemsReturned[3].timestamp = logs[1].timestamp

-----------------------------------------------------------------------------
(* C9 *)

\* The calendar day an instant falls on, counted from the day of instant 0.
C9_Day(t) == CHOOSE d \in 0..t : d * TicksPerDay <= t /\ t < (d + 1) * TicksPerDay

\* The positions in scans of the scans made on the current day.
C9_Today == {j \in 1..Len(scans) : C9_Day(scans[j].scanned_at) = C9_Day(now)}

\* C9: the report of today's scans returns exactly the ScanHistory rows whose
\* scanned_at falls on the current calendar date, whatever their time of day,
\* none from another day, newest first.
C9_TodayIsExactlyTodaysScans ==
    Op = "scan_today"
       => /\ Len(ItemsReturned) = Cardinality(C9_Today)
          /\ \E f \in [1..Len(ItemsReturned) -> C9_Today] :
                /\ \A i, j \in 1..Len(ItemsReturned) : f[i] = f[j] => i = j
                /\ \A i \in 1..Len(ItemsReturned) :
                      /\ ItemsReturned[i].barcode = scans[f[i]].barcode
                      /\ ItemsReturned[i].scanned_at = scans[f[i]].scanned_at
          /\ \A i \in 1..(Len(ItemsReturned) - 1) :
                ItemsReturned[i].scanned_at >= ItemsReturned[i + 1].scanned_at

\* Of two scans the report lists one, made earlier on the current day, and
\* leaves out the other, made the day before.
C9_Witness ==
    /\ Op = "scan_today"
    /\ Len(scans) = 2
    /\ Len(ItemsReturned) = 1
    /\ ItemsReturned[1].scanned_at < now
    /\ \E j \in 1..2 : scans[j].scanned_at < ItemsReturned[1].scanned_at

-----------------------------------------------------------------------------
(* C10 *)

\* The product that holds a barcode now, if any: the first by id.
C10_Holder(barcode) ==
    {p \in products : p.barcode = barcode
                      /\ \A q \in products : q.barcode = barcode => p.id <= q.id}

\* C10 as stated: each entry of today's scans equals the scan history entry
\* of its scan: barcode, scanned_at and product, the product carrying name,
\* sku and id of the product that holds the barcode now, or being the absent
\* marker when none does.
C10_TodayEqualsHistory ==
    Op = "scan_today"
       => \A i \in 1..Len(ItemsReturned) :
             LET entry == ItemsReturned[i]
                 holder == C10_Holder(entry.barcode)
             IN  /\ DOMAIN entry = {"barcode", "scanned_at", "product"}
                 /\ entry.product
                       = (IF holder # {}
                          THEN [name |-> Val(holder).name,
                                sku |-> Val(holder).sku,
                                id |-> Val(holder).id]
                          ELSE None)

\* C10 (amended): each entry of today's scans has the fields barcode,
\* scanned_at and product of a scan history entry, but its product carries
\* only name and sku, never an id: those of the product that holds the
\* barcode now, or "Unknown" and "Unknown" when none does.
C10_TodayCarriesNameAndSkuOnly ==
    Op = "scan_today"
       => \A i \in 1..Len(ItemsReturned) :
             LET entry == ItemsReturned[i]
                 holder == C10_Holder(entry.barcode)
             IN  /\ DOMAIN entry = {"barcode", "scanned_at", "product"}
                 /\ entry.product
                       = (IF holder # {}
                          THEN [name |-> Val(holder).name,
                                sku |-> Val(holder).sku]
                          ELSE [name |-> "Unknown", sku |-> "Unknown"])

\* Today's scans list two scans, one of a barcode a product holds and one of
\* a barcode no product holds.
C10_Witness ==
    /\ Op = "scan_today"
    /\ Len(ItemsReturned) = 2
    /\ C10_Holder(ItemsReturned[1].barcode) # {}
    /\ C10_Holder(ItemsReturned[2].barcode) = {}
    /\ ItemsReturned[1].product.name = "Widget"
    /\ ItemsReturned[2].product.name = "Unknown"

-----------------------------------------------------------------------------
(* C11 *)

\* The request was a create, an update or a delete and it succeeded.
C11_Audited(served) ==
    \/ served.op = "products.POST" /\ served.status = 201
    \/ served.op = "product_detail.PUT" /\ served.status = 200
    \/ served.op = "product_detail.DELETE" /\ served.status = 204

\* The columns of a row but its product reference.
C11_Columns(row) ==
    <<row.action, row.source, row.product_name, row.product_sku,
      row.quantity_change, row.threshold_change,
      row.current_quantity, row.current_threshold>>

\* C11: the action log is append-only with one row per audited action: every
\* successful create, update or delete request adds exactly one row, every
\* other request (the reads, and the requests that fail) adds none, so that
\* the number of rows is the number of successful creates, updates and
\* deletes so far; no request removes a row, and the action, source,
\* product_name, product_sku, quantity_change, threshold_change,
\* current_quantity and current_threshold of a row never change.
C11_LogIsAppendOnlyOnePerAction ==
    [][/\ Len(logs') = Len(logs) + (IF C11_Audited(response') THEN 1 ELSE 0)
       /\ \A i \in 1..Len(logs) :
             C11_Columns(logs'[i]) = C11_Columns(logs[i])]_vars

\* After a create, an update and a delete there are three rows, and the
\* action log report that lists them has added none.
C11_Witness ==
    /\ Op = "product_logs"
    /\ Len(logs) = 3
    /\ Len(ItemsReturned) = 3
    /\ {logs[i].action : i \in 1..3} = {"add", "edit", "delete"}

-----------------------------------------------------------------------------
(* C12 *)

\* No step writes both a product and a log row: the product write and the
\* log write of an audited action are separate steps.
C12_SeparateWrites ==
    products' # products => Len(logs') = Len(logs)

\* The step is the abort of worker 1's delete request between its two
\* writes: one is done, the other is still to come.
C12_DeleteAborts ==
    /\ calls[1].pc = "DELETE.delete"
    /\ calls'[1].pc = "idle"
    /\ response'.status = 500

\* The rows of a Product table with primary key pk.
C12_Stored(pk, table) == {p \in table : p.id = pk}

\* The last row of the log is the delete row of the product the worker held.
C12_DeleteRowWritten(product, table) ==
    /\ Len(table) > 0
    /\ table[Len(table)].action = "delete"
    /\ table[Len(table)].product_name = product.name
    /\ table[Len(table)].product_sku = product.sku

\* C12 as stated: the product write and the log write of an audited action
\* are two separate steps, and a delete request that aborts between its two
\* steps leaves the product deleted and its delete row not written.
C12_AbortedDeleteLosesLogRow ==
    [][/\ C12_SeparateWrites
       /\ C12_DeleteAborts
             => /\ C12_Stored(Val(calls[1].req.pk), products') = {}
                /\ ~C12_DeleteRowWritten(Val(calls[1].product), logs')]_vars

\* C12 (amended): the product write and the log write of an audited action
\* are two separate steps, and a delete request that aborts between its two
\* steps leaves the opposite of what the spec names: its delete row is
\* written, still referring to the product, and the product is not deleted.
C12_AbortedDeleteKeepsProduct ==
    [][/\ C12_SeparateWrites
       /\ C12_DeleteAborts
             => /\ C12_Stored(Val(calls[1].req.pk), products')
                      = {Val(calls[1].product)}
                /\ C12_DeleteRowWritten(Val(calls[1].product), logs')
                /\ logs'[Len(logs')].product = calls[1].req.pk]_vars

\* A delete request has aborted: the last row of the log is a delete row
\* that refers to a product still stored.
C12_Witness ==
    /\ Op = "product_detail.DELETE"
    /\ response.status = 500
    /\ calls[1].pc = "idle"
    /\ Len(logs) > 0
    /\ LastLog.action = "delete"
    /\ LastLog.product = Given(Pk)
    /\ Lookup(Pk) # {}

-----------------------------------------------------------------------------
(* C13 *)

\* No request is in flight: every request sent so far is completed.
C13_Completed == \A w \in Workers : calls[w].pc = "idle"

\* The positions in the log of the rows that refer to product pk.
C13_Rows(pk) == {i \in 1..Len(logs) : logs[i].product = Given(pk)}

\* The number a signed change string denotes: "0", "+N" or "-N".
C13_Signed(s) ==
    IF s[1] = "+" THEN DecValue(Tail(s))
    ELSE IF s[1] = "-" THEN 0 - DecValue(Tail(s))
    ELSE DecValue(s)

\* The quantity of the add row of product pk plus the signed quantity
\* changes of its edit rows, over the first i rows of the log.
RECURSIVE C13_Net(_, _)
C13_Net(i, pk) ==
    IF i = 0 THEN 0
    ELSE C13_Net(i - 1, pk)
         + (IF i \notin C13_Rows(pk) THEN 0
            ELSE IF logs[i].action = "add" THEN logs[i].current_quantity
            ELSE IF logs[i].action = "edit"
            THEN C13_Signed(logs[i].quantity_change)
            ELSE 0)

\* C13: once the create and update requests sent are completed, however the
\* statements of concurrent updates of one product interleaved, for every
\* stored product created through the API (it has an add row) the newest row
\* that refers to it shows the stored quantity and alert_threshold, and the
\* quantity of its add row plus the signed quantity changes of its edit rows
\* is its stored quantity.
C13_LogAgreesWithStoredProduct ==
    C13_Completed
       => \A p \in products :
             LET rows == C13_Rows(p.id)
                 newest == logs[CHOOSE i \in rows : \A j \in rows : j <= i]
             IN  (\E i \in rows : logs[i].action = "add")
                    => /\ newest.current_quantity = p.quantity
                       /\ newest.current_threshold = p.alert_threshold
                       /\ C13_Net(Len(logs), p.id) = p.quantity

=============================================================================
